---- MODULE Spec2Model ----
(***************************************************************************)
(* Model of src/weather.py: the three tools geocode_city, get_alerts and   *)
(* get_forecast, the request helpers they await and the formatters they    *)
(* call.                                                                   *)
(*                                                                         *)
(* Representation.  A Python str is a sequence of string tokens, so that   *)
(* string concatenation is \o and an f-string is the tuple of its literal  *)
(* pieces and its interpolated values; NL is the newline character.  A     *)
(* Python dict is a function whose DOMAIN is the set of keys present.      *)
(* None (where a dict is expected) is the sentinel None.  One behaviour is *)
(* one tool call: each await is one step, and the HTTP reply that resumes  *)
(* the coroutine is the input of the step.                                 *)
(***************************************************************************)
EXTENDS Integers, Sequences, FiniteSets, TLC

VARIABLES
    pc,             \* position of the running tool coroutine
    args,           \* arguments of the tool call
    reqs,           \* outbound HTTP requests issued by the call, in order
    replies,        \* HTTP replies received by the call, in order
    points_data,    \* get_forecast local
    forecast_data,  \* get_forecast local
    openmeteo_data, \* get_forecast local
    data,           \* get_alerts local
    geo,            \* geocode_city local `result'
    outcome,        \* "pending", "returned", or the exception that escaped
    rtype,          \* Python type of the returned value: "str" or "dict"
    result          \* value returned to the caller

vars == <<pc, args, reqs, replies, points_data, forecast_data, openmeteo_data,
          data, geo, outcome, rtype, result>>

(***************************************************************************)
(* Bounds of the model.                                                    *)
(***************************************************************************)
MaxPeriods == 7
MaxDaily == 5
MaxAlerts == 3
MaxMatches == 2

(***************************************************************************)
(* Python values.                                                          *)
(***************************************************************************)
None == [py_none |-> TRUE]
EmptyDict == [k \in {} |-> TRUE]
NL == "\n"
Degree == "°"

Min(a, b) == IF a < b THEN a ELSE b

\* bool(d) for d a dict or None
Truthy(d) == d # None /\ DOMAIN d # {}

\* d without key k (a provider payload that lacks the key)
Without(d, k) == [x \in DOMAIN d \ {k} |-> d[x]]

\* the labels 1..n in ascending or in descending order
Labels(n, order) == [i \in 1..n |-> IF order = "asc" THEN i ELSE n + 1 - i]

\* sep.join(list)
RECURSIVE Join(_, _)
Join(sep, list) ==
    IF list = <<>> THEN <<>>
    ELSE IF Len(list) = 1 THEN list[1]
    ELSE list[1] \o sep \o Join(sep, Tail(list))

Delimiter == <<NL, "---", NL>>

(***************************************************************************)
(* Constants of weather.py.                                                *)
(***************************************************************************)
NWS_API_BASE == "https://api.weather.gov"
GEOCODE_API_BASE == "https://nominatim.openstreetmap.org/search"
MaxShownPeriods == 5
MaxShownDays == 3

MsgNoProvider == <<"Unable to fetch forecast data from any provider.">>
MsgAlertsUnavailable == <<"Unable to fetch alerts or no alerts found.">>
MsgNoAlerts == <<"No active alerts for this state.">>
MsgNoGeocode == <<"Unable to geocode the provided location.">>

(***************************************************************************)
(* HTTP replies.  kind is what client.get / raise_for_status / .json() did: *)
(* a transport error, a non-2xx status, an undecodable body, or a decoded  *)
(* JSON value.                                                             *)
(***************************************************************************)
FailKinds == {"neterr", "status", "badjson"}
FailReplies(empty) == {[kind |-> k, json |-> empty] : k \in FailKinds}
OkReply(body) == [kind |-> "ok", json |-> body]

\* make_nws_request / make_openmeteo_request: the decoded body, or None
make_nws_request(reply) == IF reply.kind = "ok" THEN reply.json ELSE None
make_openmeteo_request(reply) == IF reply.kind = "ok" THEN reply.json ELSE None

(***************************************************************************)
(* Authoritative provider payloads.                                        *)
(***************************************************************************)
ForecastUrls == {"https://api.weather.gov/gridpoints/TOP/31,80/forecast",
                 "https://api.weather.gov/gridpoints/LWX/96,70/forecast"}

PointsBodies ==
    {None, EmptyDict, [type |-> "Feature"], [properties |-> EmptyDict]}
    \cup {[properties |-> [forecast |-> u]] : u \in ForecastUrls}

PointsReplies == FailReplies(EmptyDict) \cup {OkReply(b) : b \in PointsBodies}

PeriodKeys == {"name", "temperature", "temperatureUnit", "windSpeed",
               "windDirection", "detailedForecast"}

Period(l) ==
    [name |-> "Period" \o ToString(l),
     temperature |-> 60 + l,
     temperatureUnit |-> "F",
     windSpeed |-> ToString(l) \o " mph",
     windDirection |-> "NW",
     detailedForecast |-> "Narrative " \o ToString(l)]

\* n periods labelled in the given order; defect = <<i, k>> drops key k of
\* period i (i = 0: no period is defective)
Periods(n, order, defect) ==
    [i \in 1..n |->
        IF i = defect[1] THEN Without(Period(Labels(n, order)[i]), defect[2])
        ELSE Period(Labels(n, order)[i])]

PeriodLists ==
    {Periods(n, o, d) : n \in 0..MaxPeriods, o \in {"asc", "desc"},
                        d \in {<<0, "name">>} \cup ((1..MaxPeriods) \X PeriodKeys)}

ForecastBodies ==
    {None, EmptyDict, [type |-> "Feature"], [properties |-> EmptyDict]}
    \cup {[properties |-> [periods |-> ps]] : ps \in PeriodLists}

ForecastReplies == FailReplies(EmptyDict) \cup {OkReply(b) : b \in ForecastBodies}

(***************************************************************************)
(* Fallback provider payloads.                                             *)
(***************************************************************************)
CurrentKeys == {"temperature", "windspeed", "winddirection", "weathercode"}
CurrentWeather ==
    [temperature |-> 21, windspeed |-> 12, winddirection |-> 270, weathercode |-> 3]

DailyKeys == {"time", "temperature_2m_max", "temperature_2m_min", "weathercode"}

\* the column of key k for the day labels ls
DailyColumn(k, ls) ==
    [i \in 1..Len(ls) |->
        CASE k = "time" -> "2024-05-0" \o ToString(ls[i])
          [] k = "temperature_2m_max" -> 20 + ls[i]
          [] k = "temperature_2m_min" -> 10 + ls[i]
          [] OTHER -> ls[i]]

\* a daily block of n days; defect = <<k, how>> leaves column k out
\* (how = "missing") or one entry short (how = "short"); how = "none": intact
Daily(n, order, defect) ==
    LET ls == Labels(n, order)
        full == [k \in DailyKeys |-> DailyColumn(k, ls)]
    IN  CASE defect[2] = "missing" -> Without(full, defect[1])
          [] defect[2] = "short" /\ n > 0 ->
                [full EXCEPT ![defect[1]] = SubSeq(@, 1, n - 1)]
          [] OTHER -> full

DailyBlocks ==
    {Daily(n, o, d) : n \in 0..MaxDaily, o \in {"asc", "desc"},
                      d \in DailyKeys \X {"none", "missing", "short"}}

CurrentBlocks == {CurrentWeather, EmptyDict} \cup {Without(CurrentWeather, k) : k \in CurrentKeys}

\* a payload has both blocks, one of them intact, or only one of them, or none
FallbackBodies ==
    {None, EmptyDict}
    \cup {[current_weather |-> c] : c \in CurrentBlocks}
    \cup {[daily |-> d] : d \in DailyBlocks}
    \cup {[current_weather |-> c, daily |-> Daily(MaxDaily, "asc", <<"time", "none">>)] :
              c \in CurrentBlocks}
    \cup {[current_weather |-> CurrentWeather, daily |-> d] : d \in DailyBlocks}

FallbackReplies == FailReplies(EmptyDict) \cup {OkReply(b) : b \in FallbackBodies}

(***************************************************************************)
(* Formatters.                                                             *)
(***************************************************************************)
\* str(d.get(k, default)) for a dict of numbers
GetStr(d, k, default) == IF k \in DOMAIN d THEN ToString(d[k]) ELSE default

\* data.get(k, {}) and data.get(k, [])
GetOr(d, k, default) == IF k \in DOMAIN d THEN d[k] ELSE default

\* The loop of format_openmeteo_forecast from day i on, appended to text acc.
\* The result is the text, or the exception the first failing subscript raises.
RECURSIVE DailyLines(_, _, _, _)
DailyLines(daily, i, n, acc) ==
    IF i > n THEN [exc |-> "none", text |-> acc]
    ELSE
        LET cols == <<"time", "temperature_2m_max", "temperature_2m_min", "weathercode">>
            bad == {j \in 1..Len(cols) : cols[j] \notin DOMAIN daily \/ i > Len(daily[cols[j]])}
            first == CHOOSE j \in bad : \A j2 \in bad : j <= j2
        IN  IF bad # {}
            THEN [exc |-> IF cols[first] \notin DOMAIN daily THEN "KeyError" ELSE "IndexError",
                  text |-> <<>>]
            ELSE DailyLines(daily, i + 1, n,
                    acc \o <<daily["time"][i], ": High ",
                             ToString(daily["temperature_2m_max"][i]), Degree, "C, Low ",
                             ToString(daily["temperature_2m_min"][i]), Degree, "C, Code ",
                             ToString(daily["weathercode"][i]), NL>>)

OpenMeteoHeader(current) ==
    <<NL, "Current Weather:", NL,
      "Temperature: ", GetStr(current, "temperature", "N/A"), Degree, "C", NL,
      "Wind: ", GetStr(current, "windspeed", "N/A"), " km/h from ",
                GetStr(current, "winddirection", "N/A"), Degree, NL,
      "Weather Code: ", GetStr(current, "weathercode", "N/A"),
                " (see https://open-meteo.com/en/docs for codes)", NL,
      NL, "Next 3 Days Forecast:", NL>>

\* Mutant of ShownDays: the cap of three days is left out.
ShownDays_all(daily) == Len(GetOr(daily, "time", <<>>))

\* range(min(3, len(daily.get("time", []))))
ShownDays(daily) == Min(MaxShownDays, Len(GetOr(daily, "time", <<>>)))

format_openmeteo_forecast(d) ==
    LET current == GetOr(d, "current_weather", EmptyDict)
        daily == GetOr(d, "daily", EmptyDict)
    IN  DailyLines(daily, 1, ShownDays(daily), OpenMeteoHeader(current))

\* the f-string of one forecast period in get_forecast
FormatPeriod(period) ==
    <<NL, period["name"], ":", NL,
      "Temperature: ", ToString(period["temperature"]), Degree, period["temperatureUnit"], NL,
      "Wind: ", period["windSpeed"], " ", period["windDirection"], NL,
      "Forecast: ", period["detailedForecast"], NL>>

\* Mutant of ShownPeriods: the slice is left out, every period is shown.
ShownPeriods_all(periods) == periods

\* periods[:5]
ShownPeriods(periods) == SubSeq(periods, 1, Min(MaxShownPeriods, Len(periods)))

\* the loop and join of get_forecast: KeyError when a shown period lacks a key
FormatPeriods(periods) ==
    LET shown == ShownPeriods(periods)
    IN  IF \E i \in 1..Len(shown) : PeriodKeys \ DOMAIN shown[i] # {}
        THEN [exc |-> "KeyError", text |-> <<>>]
        ELSE [exc |-> "none",
              text |-> Join(Delimiter, [i \in 1..Len(shown) |-> FormatPeriod(shown[i])])]


(***************************************************************************)
(* Alerts payloads and format_alert.                                       *)
(***************************************************************************)
AlertKeys == {"event", "areaDesc", "severity", "description", "instruction"}

AlertProps(l) ==
    [event |-> "Event " \o ToString(l),
     areaDesc |-> "Area " \o ToString(l),
     severity |-> "Severe",
     description |-> "Description " \o ToString(l),
     instruction |-> "Instruction " \o ToString(l)]

FeatureKinds == {"full", "empty", "noprops"} \cup AlertKeys

\* a feature labelled l: with every field, with no field, without
\* `properties', or lacking the one field the kind names
Feature(l, kind) ==
    CASE kind = "full" -> [id |-> ToString(l), properties |-> AlertProps(l)]
      [] kind = "empty" -> [id |-> ToString(l), properties |-> EmptyDict]
      [] kind = "noprops" -> [id |-> ToString(l)]
      [] OTHER -> [id |-> ToString(l), properties |-> Without(AlertProps(l), kind)]

\* n features labelled in the given order; defect = <<i, kind>> gives feature i
\* the kind (i = 0: every feature has it), the others have every field
Features(n, order, defect) ==
    [i \in 1..n |->
        Feature(Labels(n, order)[i],
                IF defect[1] \in {0, i} THEN defect[2] ELSE "full")]

FeatureLists ==
    {Features(n, o, d) : n \in 0..MaxAlerts, o \in {"asc", "desc"},
                         d \in (0..MaxAlerts) \X FeatureKinds}

AlertsBodies ==
    {None, EmptyDict, [title |-> "Current watches, warnings, and advisories"]}
    \cup {[features |-> fs] : fs \in FeatureLists}

AlertsReplies == FailReplies(EmptyDict) \cup {OkReply(b) : b \in AlertsBodies}

\* props.get(k, default) for a dict of strings
Get(d, k, default) == IF k \in DOMAIN d THEN d[k] ELSE default

\* Mutant of format_alert: every absent field shows the same placeholder.
format_alert_unknown(feature) ==
    IF "properties" \notin DOMAIN feature
    THEN [exc |-> "KeyError", text |-> <<>>]
    ELSE LET props == feature["properties"]
         IN  [exc |-> "none",
              text |-> <<NL, "Event: ", Get(props, "event", "Unknown"), NL,
                         "Area: ", Get(props, "areaDesc", "Unknown"), NL,
                         "Severity: ", Get(props, "severity", "Unknown"), NL,
                         "Description: ", Get(props, "description", "Unknown"), NL,
                         "Instructions: ", Get(props, "instruction", "Unknown"), NL>>]

format_alert(feature) ==
    IF "properties" \notin DOMAIN feature
    THEN [exc |-> "KeyError", text |-> <<>>]
    ELSE LET props == feature["properties"]
         IN  [exc |-> "none",
              text |-> <<NL, "Event: ", Get(props, "event", "Unknown"), NL,
                         "Area: ", Get(props, "areaDesc", "Unknown"), NL,
                         "Severity: ", Get(props, "severity", "Unknown"), NL,
                         "Description: ",
                             Get(props, "description", "No description available"), NL,
                         "Instructions: ",
                             Get(props, "instruction", "No specific instructions provided"),
                         NL>>]

\* the list comprehension and join of get_alerts
FormatAlerts(features) ==
    LET alerts == [i \in 1..Len(features) |-> format_alert(features[i])]
    IN  IF \E i \in 1..Len(alerts) : alerts[i].exc # "none"
        THEN [exc |-> "KeyError", text |-> <<>>]
        ELSE [exc |-> "none",
              text |-> Join(Delimiter, [i \in 1..Len(alerts) |-> alerts[i].text])]

(***************************************************************************)
(* Geocoding payloads and float().  A numeric string of the provider is a  *)
(* sequence of characters; a float is the integer number of 10^-FracDigits *)
(* units it denotes.                                                       *)
(***************************************************************************)
FracDigits == 2

DigitChars == <<"0", "1", "2", "3", "4", "5", "6", "7", "8", "9">>
IsDigit(c) == \E d \in 1..Len(DigitChars) : DigitChars[d] = c
DigitVal(c) == (CHOOSE d \in 1..Len(DigitChars) : DigitChars[d] = c) - 1

RECURSIVE Pow10(_)
Pow10(n) == IF n = 0 THEN 1 ELSE 10 * Pow10(n - 1)

RECURSIVE DigitsVal(_)
DigitsVal(cs) ==
    IF cs = <<>> THEN 0 ELSE 10 * DigitsVal(SubSeq(cs, 1, Len(cs) - 1)) + DigitVal(cs[Len(cs)])

\* float(s) for decimal literals: [sign] digits [. digits] with at least one
\* digit; anything else is a ValueError
ParseFloat(s) ==
    LET signed == s # <<>> /\ s[1] \in {"-", "+"}
        body == IF signed THEN Tail(s) ELSE s
        dots == {i \in 1..Len(body) : body[i] = "."}
        dot == IF dots = {} THEN Len(body) + 1 ELSE CHOOSE i \in dots : TRUE
        whole == SubSeq(body, 1, dot - 1)
        frac == SubSeq(body, dot + 1, Len(body))
        wellformed ==
            /\ Cardinality(dots) <= 1
            /\ Len(whole) + Len(frac) > 0
            /\ Len(frac) <= FracDigits
            /\ \A i \in 1..Len(body) : i \in dots \/ IsDigit(body[i])
    IN  IF ~wellformed THEN [exc |-> "ValueError", val |-> 0]
        ELSE [exc |-> "none",
              val |-> (IF signed /\ s[1] = "-" THEN -1 ELSE 1)
                      * (DigitsVal(whole) * Pow10(FracDigits)
                         + DigitsVal(frac) * Pow10(FracDigits - Len(frac)))]

LatStrings == {<<"4", "5", ".", "0", "7">>, <<"-", "0", ".", "5">>, <<"a", "b", "c">>, <<>>}
LonStrings == {<<"7", ".", "6", "8">>, <<"x">>}
DisplayNames == {"Torino, Piemonte, Italia"}

\* the match objects of the geocoding provider: with every key, and a
\* well-formed one without each key
GeocodeItems ==
    LET full == {[lat |-> a, lon |-> o, display_name |-> d] :
                    a \in LatStrings, o \in LonStrings, d \in DisplayNames}
        good == {f \in full : ParseFloat(f["lat"]).exc = "none"
                              /\ ParseFloat(f["lon"]).exc = "none"}
        one == CHOOSE f \in good : TRUE
    IN  full \cup {Without(f, "display_name") : f \in good}
             \cup {Without(one, "lat"), Without(one, "lon")}

GeocodeLists == UNION {[1..n -> GeocodeItems] : n \in 0..MaxMatches}

GeocodeReplies == FailReplies(<<>>) \cup {OkReply(l) : l \in GeocodeLists}

\* item.get("display_name"): the one-element sequence of the label, or <<>>
\* for None
OptionalName(item) ==
    IF "display_name" \in DOMAIN item THEN <<item["display_name"]>> ELSE <<>>

\* the dict make_geocode_request builds from a match, or None when a
\* subscript or float() raises inside its try block
FromMatch(item) ==
    IF "lat" \notin DOMAIN item THEN None
    ELSE IF ParseFloat(item["lat"]).exc # "none" THEN None
    ELSE IF "lon" \notin DOMAIN item THEN None
    ELSE IF ParseFloat(item["lon"]).exc # "none" THEN None
    ELSE [latitude |-> ParseFloat(item["lat"]).val,
          longitude |-> ParseFloat(item["lon"]).val,
          display_name |-> OptionalName(item)]

\* Mutant of make_geocode_request: the last match is used instead of the first.
make_geocode_request_last(reply) ==
    IF reply.kind # "ok" THEN None
    ELSE IF reply.json = <<>> THEN None
    ELSE FromMatch(reply.json[Len(reply.json)])

\* make_geocode_request: the first match as a dict, or None
make_geocode_request(reply) ==
    IF reply.kind # "ok" THEN None
    ELSE IF reply.json = <<>> THEN None
    ELSE FromMatch(reply.json[1])

(***************************************************************************)
(* Requests.                                                               *)
(***************************************************************************)
Coords == {<<45, 7>>, <<39, -98>>}

PointsRequest(latitude, longitude) ==
    [provider |-> "nws", endpoint |-> "points",
     url |-> <<NWS_API_BASE, "/points/", ToString(latitude), ",", ToString(longitude)>>]

ForecastRequest(forecast_url) ==
    [provider |-> "nws", endpoint |-> "forecast", url |-> <<forecast_url>>]

OpenMeteoRequest(latitude, longitude) ==
    [provider |-> "openmeteo", endpoint |-> "forecast",
     url |-> <<"https://api.open-meteo.com/v1/forecast?latitude=", ToString(latitude),
               "&longitude=", ToString(longitude),
               "&current_weather=true&hourly=temperature_2m,relative_humidity_2m,wind_speed_10m,wind_direction_10m&daily=temperature_2m_max,temperature_2m_min,weathercode&timezone=auto&forecast_days=3">>]

AlertsRequest(state) ==
    [provider |-> "nws", endpoint |-> "alerts",
     url |-> <<NWS_API_BASE, "/alerts/active/area/", state>>]

GeocodeRequest(q) ==
    [provider |-> "nominatim", endpoint |-> "search",
     url |-> <<GEOCODE_API_BASE, "?q=", q, "&format=json&limit=1">>]

States == {"CA", "NY"}
Cities == {"Torino", "Atlantis"}

(***************************************************************************)
(* State.                                                                  *)
(***************************************************************************)
Init ==
    /\ pc = "idle"
    /\ args = <<>>
    /\ reqs = <<>>
    /\ replies = <<>>
    /\ points_data = None
    /\ forecast_data = None
    /\ openmeteo_data = None
    /\ data = None
    /\ geo = None
    /\ outcome = "pending"
    /\ rtype = "none"
    /\ result = <<>>

\* `return value' of the running tool
Return(value) ==
    pc' = "done" /\ outcome' = "returned" /\ rtype' = "str" /\ result' = value

\* `return value' where the value is a dict
ReturnDict(value) ==
    pc' = "done" /\ outcome' = "returned" /\ rtype' = "dict" /\ result' = value

\* an exception leaves the running tool
Raise(exc) == pc' = "done" /\ outcome' = exc /\ UNCHANGED <<rtype, result>>

\* return the text of a formatter, or let its exception through
Finish(formatted) ==
    IF formatted.exc = "none" THEN Return(formatted.text) ELSE Raise(formatted.exc)

(***************************************************************************)
(* get_forecast.                                                           *)
(***************************************************************************)
\* Mutant of get_forecast_call: the fallback request is started together with
\* the points request instead of after the authoritative attempt has failed.
get_forecast_call_eager(latitude, longitude) ==
    /\ pc = "idle"
    /\ pc' = "gf_points"
    /\ args' = <<latitude, longitude>>
    /\ reqs' = reqs \o <<PointsRequest(latitude, longitude),
                          OpenMeteoRequest(latitude, longitude)>>
    /\ UNCHANGED <<replies, points_data, forecast_data, openmeteo_data, data, geo,
                   outcome, rtype, result>>

\* the tool is called and awaits make_nws_request(points_url)
get_forecast_call(latitude, longitude) ==
    /\ pc = "idle"
    /\ pc' = "gf_points"
    /\ args' = <<latitude, longitude>>
    /\ reqs' = Append(reqs, PointsRequest(latitude, longitude))
    /\ UNCHANGED <<replies, points_data, forecast_data, openmeteo_data, data, geo,
                   outcome, rtype, result>>

\* Mutant of get_forecast_points: a failed points request ends the call with
\* the error message, without trying the fallback provider.
get_forecast_points_nofallback(reply) ==
    /\ pc = "gf_points"
    /\ replies' = Append(replies, reply)
    /\ LET pd == make_nws_request(reply)
       IN  /\ points_data' = pd
           /\ IF Truthy(pd)
              THEN IF "properties" \in DOMAIN pd /\ "forecast" \in DOMAIN pd["properties"]
                   THEN /\ reqs' = Append(reqs, ForecastRequest(pd["properties"]["forecast"]))
                        /\ pc' = "gf_forecast"
                        /\ UNCHANGED <<outcome, rtype, result>>
                   ELSE Raise("KeyError") /\ UNCHANGED reqs
              ELSE Return(MsgNoProvider) /\ UNCHANGED reqs
    /\ UNCHANGED <<args, forecast_data, openmeteo_data, data, geo>>

\* the points request completes
get_forecast_points(reply) ==
    /\ pc = "gf_points"
    /\ replies' = Append(replies, reply)
    /\ LET pd == make_nws_request(reply)
       IN  /\ points_data' = pd
           /\ IF Truthy(pd)
              THEN IF "properties" \in DOMAIN pd /\ "forecast" \in DOMAIN pd["properties"]
                   THEN /\ reqs' = Append(reqs, ForecastRequest(pd["properties"]["forecast"]))
                        /\ pc' = "gf_forecast"
                        /\ UNCHANGED <<outcome, rtype, result>>
                   ELSE Raise("KeyError") /\ UNCHANGED reqs
              ELSE /\ reqs' = Append(reqs, OpenMeteoRequest(args[1], args[2]))
                   /\ pc' = "gf_fallback"
                   /\ UNCHANGED <<outcome, rtype, result>>
    /\ UNCHANGED <<args, forecast_data, openmeteo_data, data, geo>>

\* the forecast request completes
get_forecast_forecast(reply) ==
    /\ pc = "gf_forecast"
    /\ replies' = Append(replies, reply)
    /\ LET fd == make_nws_request(reply)
       IN  /\ forecast_data' = fd
           /\ IF Truthy(fd)
              THEN /\ IF "properties" \in DOMAIN fd /\ "periods" \in DOMAIN fd["properties"]
                      THEN Finish(FormatPeriods(fd["properties"]["periods"]))
                      ELSE Raise("KeyError")
                   /\ UNCHANGED reqs
              ELSE /\ reqs' = Append(reqs, OpenMeteoRequest(args[1], args[2]))
                   /\ pc' = "gf_fallback"
                   /\ UNCHANGED <<outcome, rtype, result>>
    /\ UNCHANGED <<args, points_data, openmeteo_data, data, geo>>

\* the fallback request completes
get_forecast_fallback(reply) ==
    /\ pc = "gf_fallback"
    /\ replies' = Append(replies, reply)
    /\ LET od == make_openmeteo_request(reply)
       IN  /\ openmeteo_data' = od
           /\ IF Truthy(od)
              THEN Finish(format_openmeteo_forecast(od))
              ELSE Return(MsgNoProvider)
    /\ UNCHANGED <<args, reqs, points_data, forecast_data, data, geo>>

(***************************************************************************)
(* get_alerts.                                                             *)
(***************************************************************************)
\* Mutant of get_alerts_result: one test `not data or not data.get("features")'
\* answers an empty feature list with the "unable to fetch" message.
get_alerts_result_merged(d) ==
    IF ~Truthy(d) \/ "features" \notin DOMAIN d \/ d["features"] = <<>>
    THEN [exc |-> "none", text |-> MsgAlertsUnavailable]
    ELSE FormatAlerts(d["features"])

\* what get_alerts does with the awaited data: the text it returns, or the
\* exception that leaves it
get_alerts_result(d) ==
    IF ~Truthy(d) \/ "features" \notin DOMAIN d
    THEN [exc |-> "none", text |-> MsgAlertsUnavailable]
    ELSE IF d["features"] = <<>>
    THEN [exc |-> "none", text |-> MsgNoAlerts]
    ELSE FormatAlerts(d["features"])

\* the tool is called and awaits make_nws_request(url)
get_alerts_call(state) ==
    /\ pc = "idle"
    /\ pc' = "ga_alerts"
    /\ args' = <<state>>
    /\ reqs' = Append(reqs, AlertsRequest(state))
    /\ UNCHANGED <<replies, points_data, forecast_data, openmeteo_data, data, geo,
                   outcome, rtype, result>>

\* the alerts request completes
get_alerts_reply(reply) ==
    /\ pc = "ga_alerts"
    /\ replies' = Append(replies, reply)
    /\ LET d == make_nws_request(reply)
       IN  /\ data' = d
           /\ Finish(get_alerts_result(d))
    /\ UNCHANGED <<args, reqs, points_data, forecast_data, openmeteo_data, geo>>

(***************************************************************************)
(* geocode_city.                                                           *)
(***************************************************************************)
\* the tool is called and awaits make_geocode_request(city)
geocode_city_call(city) ==
    /\ pc = "idle"
    /\ pc' = "gc_search"
    /\ args' = <<city>>
    /\ reqs' = Append(reqs, GeocodeRequest(city))
    /\ UNCHANGED <<replies, points_data, forecast_data, openmeteo_data, data, geo,
                   outcome, rtype, result>>

\* the geocoding request completes
geocode_city_reply(reply) ==
    /\ pc = "gc_search"
    /\ replies' = Append(replies, reply)
    /\ LET r == make_geocode_request(reply)
       IN  /\ geo' = r
           /\ IF ~Truthy(r) THEN Return(MsgNoGeocode) ELSE ReturnDict(r)
    /\ UNCHANGED <<args, reqs, points_data, forecast_data, openmeteo_data, data>>

Next ==
    \/ \E c \in Coords : get_forecast_call(c[1], c[2])
    \/ \E r \in PointsReplies : get_forecast_points(r)
    \/ \E r \in ForecastReplies : get_forecast_forecast(r)
    \/ \E r \in FallbackReplies : get_forecast_fallback(r)
    \/ \E s \in States : get_alerts_call(s)
    \/ \E r \in AlertsReplies : get_alerts_reply(r)
    \/ \E c \in Cities : geocode_city_call(c)
    \/ \E r \in GeocodeReplies : geocode_city_reply(r)

Spec == Init /\ [][Next]_vars

(***************************************************************************)
(* Properties.                                                             *)
(***************************************************************************)
\* the tool the behaviour runs, read off its first request
Tool ==
    IF reqs = <<>> THEN "none"
    ELSE CASE reqs[1].endpoint = "points" -> "get_forecast"
           [] reqs[1].endpoint = "alerts" -> "get_alerts"
           [] OTHER -> "geocode_city"

\* the i-th request of the call failed: transport error, error status,
\* undecodable body, or a body that decodes to null
Failed(i) == replies[i].kind \in FailKinds \/ replies[i].json = None

\* the i-th request of the call was answered with a decoded JSON object
Decoded(i) == replies[i].kind = "ok" /\ replies[i].json # None

FallbackRequested == \E i \in 1..Len(reqs) : reqs[i].provider = "openmeteo"

\* C1: whenever the points request of a get_forecast call has failed, the
\* fallback provider has been requested (it is the next request of the call,
\* for the call's coordinates) before the call is done; and when the fallback
\* request has failed too, the call returned exactly the fixed message
\* "Unable to fetch forecast data from any provider." and raised nothing.
C1_PointsFailureFallsBack ==
    (Tool = "get_forecast" /\ Len(replies) >= 1 /\ Failed(1)) =>
        /\ Len(reqs) = 2
        /\ reqs[2] = OpenMeteoRequest(args[1], args[2])
        /\ pc = "done" => Len(replies) = 2
        /\ (Len(replies) = 2 /\ Failed(2)) =>
              /\ pc = "done"
              /\ outcome = "returned"
              /\ rtype = "str"
              /\ result = <<"Unable to fetch forecast data from any provider.">>

C1_Witness ==
    /\ Tool = "get_forecast" /\ pc = "done"
    /\ Len(replies) = 2 /\ Failed(1) /\ Failed(2)
    /\ replies[1].kind = "neterr" /\ replies[2].kind = "status"
    /\ result = <<"Unable to fetch forecast data from any provider.">>

\* a decoded points body that lacks properties.forecast, a decoded forecast
\* body that lacks properties.periods
LacksForecastRef(body) ==
    "properties" \notin DOMAIN body \/ "forecast" \notin DOMAIN body["properties"]
LacksPeriods(body) ==
    "properties" \notin DOMAIN body \/ "periods" \notin DOMAIN body["properties"]

AuthoritativeLacksKeys ==
    \/ Len(replies) >= 1 /\ Decoded(1) /\ LacksForecastRef(replies[1].json)
    \/ /\ Len(replies) >= 2 /\ reqs[2].endpoint = "forecast" /\ reqs[2].provider = "nws"
       /\ Decoded(2) /\ LacksPeriods(replies[2].json)

\* C2: when an authoritative response of get_forecast decodes but lacks the
\* expected keys, the call falls back: it requests the fallback provider, no
\* exception reaches the caller, and it returns text.
C2_MissingKeysCollapse ==
    (Tool = "get_forecast" /\ AuthoritativeLacksKeys) =>
        /\ outcome \in {"pending", "returned"}
        /\ FallbackRequested

\* C3: when both authoritative lookups succeed and the period list is empty,
\* get_forecast does not return an authoritative report: a finished call has
\* requested the fallback provider.
C3_EmptyPeriodsFallBack ==
    (/\ Tool = "get_forecast" /\ pc = "done"
     /\ Len(replies) >= 2 /\ reqs[2].provider = "nws"
     /\ Decoded(2) /\ ~LacksPeriods(replies[2].json)
     /\ replies[2].json["properties"]["periods"] = <<>>) =>
        FallbackRequested

\* C4: the requests of one get_forecast call: the points request is first; a
\* forecast request is the second request and follows a points reply that
\* decoded to a non-empty object; a fallback request directly follows a failed
\* or empty authoritative reply and nothing follows it; no request is issued
\* twice; and a call that returned the authoritative report never requested
\* the fallback.
C4_RequestOrder ==
    Tool = "get_forecast" =>
        /\ reqs[1] = PointsRequest(args[1], args[2])
        /\ Len(reqs) <= Len(replies) + 1
        /\ \A i, j \in 1..Len(reqs) :
              (reqs[i].provider = reqs[j].provider /\ reqs[i].endpoint = reqs[j].endpoint)
                  => i = j
        /\ \A i \in 1..Len(reqs) :
              /\ (reqs[i].provider = "nws" /\ reqs[i].endpoint = "forecast") =>
                    /\ i = 2
                    /\ Decoded(1) /\ DOMAIN replies[1].json # {}
                    /\ reqs[i].url = <<replies[1].json["properties"]["forecast"]>>
              /\ reqs[i].provider = "openmeteo" =>
                    /\ i > 1 /\ i = Len(reqs)
                    /\ Len(replies) >= i - 1
                    /\ Failed(i - 1) \/ DOMAIN replies[i - 1].json = {}
        /\ (/\ pc = "done" /\ outcome = "returned"
            /\ Len(replies) = 2 /\ reqs[2].provider = "nws") => ~FallbackRequested

C4_Witness ==
    /\ Tool = "get_forecast" /\ pc = "done" /\ outcome = "returned"
    /\ Len(reqs) = 3 /\ Len(replies) = 3
    /\ reqs[2].endpoint = "forecast" /\ reqs[3].provider = "openmeteo"
    /\ Decoded(3) /\ result # <<"Unable to fetch forecast data from any provider.">>

\* text.split(sep): the pieces of text between the occurrences of sep
RECURSIVE SplitOn(_, _)
SplitOn(text, sep) ==
    LET hits == {i \in 1..(Len(text) - Len(sep) + 1) :
                    SubSeq(text, i, i + Len(sep) - 1) = sep}
        first == CHOOSE i \in hits : \A j \in hits : i <= j
    IN  IF hits = {} THEN <<text>>
        ELSE <<SubSeq(text, 1, first - 1)>>
             \o SplitOn(SubSeq(text, first + Len(sep), Len(text)), sep)

\* C5: a finished get_alerts call whose response has a features field that is
\* an empty list returned "No active alerts for this state."; one whose
\* request failed or whose response has no features field returned "Unable to
\* fetch alerts or no alerts found."; and the call's only request is the
\* alerts request to the authoritative provider.
C5_AlertMessages ==
    Tool = "get_alerts" =>
        /\ reqs = <<AlertsRequest(args[1])>>
        /\ \A i \in 1..Len(reqs) : reqs[i].provider = "nws"
        /\ pc = "done" =>
              /\ (Decoded(1) /\ "features" \in DOMAIN replies[1].json
                  /\ replies[1].json["features"] = <<>>) =>
                    (outcome = "returned"
                     /\ result = <<"No active alerts for this state.">>)
              /\ (Failed(1) \/ "features" \notin DOMAIN replies[1].json) =>
                    (outcome = "returned"
                     /\ result = <<"Unable to fetch alerts or no alerts found.">>)

C5_Witness ==
    /\ Tool = "get_alerts" /\ pc = "done"
    /\ Decoded(1) /\ "features" \in DOMAIN replies[1].json
    /\ replies[1].json["features"] = <<>>
    /\ result = <<"No active alerts for this state.">>

\* C6: a finished geocode_city call raised nothing; it returned "Unable to
\* geocode the provided location." when the request failed, the body did not
\* decode, or the provider returned zero matches; and when it returned a
\* record, the provider returned at least one match and the record holds the
\* first match's coordinates, parsed, and its label.
C6_GeocodeResult ==
    (Tool = "geocode_city" /\ pc = "done") =>
        /\ outcome = "returned"
        /\ (replies[1].kind \in FailKinds \/ replies[1].json = <<>>) =>
              (rtype = "str" /\ result = <<"Unable to geocode the provided location.">>)
        /\ rtype = "str" => result = <<"Unable to geocode the provided location.">>
        /\ rtype = "dict" =>
              /\ replies[1].kind = "ok"
              /\ Len(replies[1].json) >= 1
              /\ DOMAIN result = {"latitude", "longitude", "display_name"}
              /\ LET first == replies[1].json[1]
                 IN  /\ {"lat", "lon"} \subseteq DOMAIN first
                     /\ ParseFloat(first["lat"]) = [exc |-> "none", val |-> result["latitude"]]
                     /\ ParseFloat(first["lon"]) = [exc |-> "none", val |-> result["longitude"]]
                     /\ result["display_name"] =
                           (IF "display_name" \in DOMAIN first
                            THEN <<first["display_name"]>> ELSE <<>>)

\* two matches, the second of which differs from the first: the record is the
\* first one's, 45.07 and 7.68 in hundredths
C6_Witness ==
    /\ Tool = "geocode_city" /\ pc = "done" /\ rtype = "dict"
    /\ Len(replies[1].json) = 2
    /\ replies[1].json[1] # replies[1].json[2]
    /\ "lat" \in DOMAIN replies[1].json[2]
    /\ replies[1].json[1]["lat"] # replies[1].json[2]["lat"]
    /\ replies[1].json[1]["lat"] = <<"4", "5", ".", "0", "7">>
    /\ result["latitude"] = 4507 /\ result["longitude"] = 768

\* the call reached one of its formatters with data whose optional fields
\* may be missing
FormattingReached ==
    \/ /\ Tool = "get_forecast" /\ Len(replies) = 2 /\ reqs[2].provider = "nws"
       /\ Decoded(2) /\ ~LacksPeriods(replies[2].json)
    \/ /\ Tool = "get_forecast" /\ Len(replies) = Len(reqs)
       /\ reqs[Len(reqs)].provider = "openmeteo"
       /\ Decoded(Len(reqs)) /\ DOMAIN replies[Len(reqs)].json # {}
    \/ /\ Tool = "get_alerts" /\ Len(replies) = 1 /\ Decoded(1)
       /\ "features" \in DOMAIN replies[1].json
       /\ \A i \in 1..Len(replies[1].json["features"]) :
             "properties" \in DOMAIN replies[1].json["features"][i]

\* C7: formatting never raises on missing optional fields: a call that
\* reached a formatter returns text, whichever period, current-weather, daily
\* or alert fields are missing.
C7_FormattingNeverRaises ==
    (pc = "done" /\ FormattingReached) => (outcome = "returned" /\ rtype = "str")

\* C8: a finished get_forecast call whose forecast response holds n >= 1
\* periods returns when the first min(n, 5) periods have all six fields, and
\* the text it returns is exactly min(n, 5) blocks separated by the line
\* "---", the i-th block being the block of the i-th period; no later period's
\* name occurs in it.
C8_FirstFivePeriods ==
    (/\ Tool = "get_forecast" /\ pc = "done"
     /\ Len(replies) = 2 /\ reqs[2].provider = "nws"
     /\ Decoded(2) /\ ~LacksPeriods(replies[2].json)
     /\ Len(replies[2].json["properties"]["periods"]) >= 1) =>
        LET ps == replies[2].json["properties"]["periods"]
            k == IF Len(ps) < 5 THEN Len(ps) ELSE 5
            blocks == SplitOn(result, <<"\n", "---", "\n">>)
        IN  /\ (\A i \in 1..k : PeriodKeys \subseteq DOMAIN ps[i]) => outcome = "returned"
            /\ outcome = "returned" =>
                  /\ Len(blocks) = k
                  /\ \A i \in 1..k : blocks[i] =
                        <<"\n", ps[i]["name"], ":", "\n",
                          "Temperature: ", ToString(ps[i]["temperature"]), "°",
                              ps[i]["temperatureUnit"], "\n",
                          "Wind: ", ps[i]["windSpeed"], " ", ps[i]["windDirection"], "\n",
                          "Forecast: ", ps[i]["detailedForecast"], "\n">>
                  /\ \A j \in (k + 1)..Len(ps) : \A t \in 1..Len(result) :
                        "name" \in DOMAIN ps[j] => result[t] # ps[j]["name"]
                  /\ ~FallbackRequested

\* seven periods in, five blocks out
C8_Witness ==
    /\ Tool = "get_forecast" /\ pc = "done" /\ outcome = "returned"
    /\ Len(replies) = 2 /\ reqs[2].provider = "nws" /\ Decoded(2)
    /\ ~LacksPeriods(replies[2].json)
    /\ Len(replies[2].json["properties"]["periods"]) = 7
    /\ replies[2].json["properties"]["periods"][1]["name"] = "Period7"
    /\ Len(SplitOn(result, <<"\n", "---", "\n">>)) = 5

\* the fallback payload the call formatted has a daily block of n entries:
\* the four columns are present and n long
FallbackDaily(n) ==
    /\ Tool = "get_forecast" /\ pc = "done" /\ Len(replies) = Len(reqs)
    /\ reqs[Len(reqs)].provider = "openmeteo"
    /\ Decoded(Len(reqs))
    /\ "daily" \in DOMAIN replies[Len(reqs)].json
    /\ DailyKeys \subseteq DOMAIN replies[Len(reqs)].json["daily"]
    /\ \A c \in DailyKeys : Len(replies[Len(reqs)].json["daily"][c]) = n

\* C9: for a fallback payload whose daily block has n entries the formatter's
\* text is the current-conditions block, the "Next 3 Days Forecast:" line and
\* exactly min(n, 3) daily lines, the i-th line being the line of the i-th
\* daily entry.
C9_FirstThreeDays ==
    \A n \in 0..(MaxDaily + 1) : FallbackDaily(n) =>
        LET daily == replies[Len(reqs)].json["daily"]
            k == IF n < 3 THEN n ELSE 3
            lines == SplitOn(result, <<"\n">>)
        IN  /\ outcome = "returned"
            /\ Len(lines) = 8 + k
            /\ lines[1] = <<>>
            /\ lines[2] = <<"Current Weather:">>
            /\ lines[3][1] = "Temperature: "
            /\ lines[4][1] = "Wind: "
            /\ lines[5][1] = "Weather Code: "
            /\ lines[6] = <<>>
            /\ lines[7] = <<"Next 3 Days Forecast:">>
            /\ \A i \in 1..k : lines[7 + i] =
                  <<daily["time"][i], ": High ", ToString(daily["temperature_2m_max"][i]),
                    "°", "C, Low ", ToString(daily["temperature_2m_min"][i]),
                    "°", "C, Code ", ToString(daily["weathercode"][i])>>
            /\ lines[8 + k] = <<>>

\* five daily entries in, three daily lines out
C9_Witness ==
    /\ FallbackDaily(5)
    /\ replies[Len(reqs)].json["daily"]["time"][1] = "2024-05-05"
    /\ Len(SplitOn(result, <<"\n">>)) = 11
    /\ SplitOn(result, <<"\n">>)[8][1] = "2024-05-05"
    /\ SplitOn(result, <<"\n">>)[10][1] = "2024-05-03"

\* the five lines of an alert block: label, key, placeholder
AlertLines ==
    << <<"Event: ", "event", "Unknown">>,
       <<"Area: ", "areaDesc", "Unknown">>,
       <<"Severity: ", "severity", "Unknown">>,
       <<"Description: ", "description", "No description available">>,
       <<"Instructions: ", "instruction", "No specific instructions provided">> >>

\* C10: a finished get_alerts call whose response holds n >= 1 alert records
\* returns n blocks separated by the line "---", in the order of the records;
\* each block is the five lines Event, Area, Severity, Description,
\* Instructions, each carrying the record's field or, when the field is
\* absent, its placeholder; a record with no field at all gives the block of
\* the five placeholders.
C10_AlertBlocks ==
    (/\ Tool = "get_alerts" /\ pc = "done" /\ Decoded(1)
     /\ "features" \in DOMAIN replies[1].json
     /\ Len(replies[1].json["features"]) >= 1
     /\ \A i \in 1..Len(replies[1].json["features"]) :
           "properties" \in DOMAIN replies[1].json["features"][i]) =>
        LET fs == replies[1].json["features"]
            blocks == SplitOn(result, <<"\n", "---", "\n">>)
        IN  /\ outcome = "returned"
            /\ Len(blocks) = Len(fs)
            /\ \A i \in 1..Len(fs) :
                  LET props == fs[i]["properties"]
                      lines == SplitOn(blocks[i], <<"\n">>)
                  IN  /\ Len(lines) = 7 /\ lines[1] = <<>> /\ lines[7] = <<>>
                      /\ \A j \in 1..5 : lines[j + 1] =
                            <<AlertLines[j][1],
                              IF AlertLines[j][2] \in DOMAIN props
                              THEN props[AlertLines[j][2]] ELSE AlertLines[j][3]>>
                      /\ DOMAIN props = {} =>
                            blocks[i] = <<"\n", "Event: ", "Unknown",
                                          "\n", "Area: ", "Unknown",
                                          "\n", "Severity: ", "Unknown",
                                          "\n", "Description: ", "No description available",
                                          "\n", "Instructions: ",
                                                "No specific instructions provided",
                                          "\n">>

\* three alerts in descending label order, the second with every field absent
C10_Witness ==
    /\ Tool = "get_alerts" /\ pc = "done" /\ outcome = "returned" /\ Decoded(1)
    /\ "features" \in DOMAIN replies[1].json
    /\ Len(replies[1].json["features"]) = 3
    /\ replies[1].json["features"][1] = Feature(3, "full")
    /\ replies[1].json["features"][2] = Feature(2, "empty")
    /\ replies[1].json["features"][3] = Feature(1, "full")
    /\ Len(SplitOn(result, <<"\n", "---", "\n">>)) = 3

====
